---- MODULE Spec2Model ----
(***************************************************************************)
(* A model of the v8-format codec of dapi-rs: the serde adapter of         *)
(* ser.rs (impl ser::Serializer for &mut Serializer and the Serialize*     *)
(* impls), the Value-tree encoder of ser.rs (Serializer::write_value) and  *)
(* the decoder of de.rs (Deserializer::deserialize).                       *)
(*                                                                         *)
(* Bytes are the integers 0..255, a Vec<u8> is a sequence of them, and an  *)
(* Option<usize> is the empty sequence (None) or a one-element sequence    *)
(* (Some(n)).                                                              *)
(***************************************************************************)
EXTENDS Integers, Sequences, FiniteSets, TLC

VARIABLES
    serializer,   \* the Serializer struct: data, start_pos, current_len, lazy_len
    stack,        \* the producer's open composites (the Serialize impls on the call stack)
    ended,        \* the composite whose end() returned last
    status,       \* "running" | "done" (to_vec returned Ok) | "failed" (it returned Err) | "panicked" (unwrap on None)
    de_data,      \* Deserializer.data
    de_offset,    \* Deserializer.offset
    de_result,    \* what deserialize returned (or that it panicked)
    origin        \* how the caller built the bytes handed to deserialize

vars == <<serializer, stack, ended, status, de_data, de_offset, de_result, origin>>

deVars == <<de_data, de_offset, de_result, origin>>

----------------------------------------------------------------------------
(* Bounds of the model.                                                    *)

\* the deepest nesting of composites (sequences, tuples, maps, records, variants,
\* unit structs) the producer drives through the adapter
MaxDepth == 2
\* the most elements or fields a sequence, tuple or record holds
MaxLen == 2
\* the most entries a map holds
MaxEntries == 1
\* the largest of the small integers and buffer lengths handed in
MaxNum == 20
\* the most children of a Value whose children are scalars
MaxKids == 2
\* the most children of a Value whose children are composites
NestedKids == 1
\* the longest payload handed to the decoder byte by byte
MaxRaw == 3

----------------------------------------------------------------------------
(* Wire constants.                                                         *)

FORMAT_VERSION == 208
VERSION_MARK == 255
TAG_UNDEFINED == 95
TAG_NULL == 48
TAG_TRUE == 84
TAG_FALSE == 70
TAG_ONE_BYTE_STRING == 34
TAG_BEGIN_OBJECT == 111
TAG_END_OBJECT == 123
TAG_BEGIN_ARRAY == 65
TAG_END_ARRAY == 36
TAG_BEGIN_MAP == 59
TAG_END_MAP == 58
TAG_INT32 == 73
TAG_UINT32 == 85
TAG_DOUBLE == 78
TAG_BIGINT == 90
TAG_TWO_BYTE_STRING == 99
TAG_OBJECT_REFERENCE == 94
TAG_DATE == 68
TAG_NUMBER_OBJECT == 110
TAG_BIGINT_OBJECT == 122
TAG_STRING_OBJECT == 115
TAG_REGEXP == 82
TAG_BEGIN_SET == 39
TAG_END_SET == 44
TAG_ARRAY_BUFFER == 66
TAG_ARRAY_BUFFER_TRANSFER == 116
TAG_ARRAY_BUFFER_VIEW == 86
TAG_SHARED_ARRAY_BUFFER == 117
TAG_ERROR == 114
TAG_ERROR_MESSAGE == 109
TAG_ERROR_STACK == 115
TAG_ERROR_END == 46

None == <<>>
Some(n) == <<n>>
is_none(o) == o = <<>>
unwrap(o) == o[1]
unwrap_or(o, d) == IF o = <<>> THEN d ELSE o[1]

\* `x as u32` of a usize: the identity below 2^32, and every length and count
\* of the model is below 2^31
AsU32(n) == n

\* integer_encoding's encode_var_vec on an unsigned integer: little-endian
\* base 128, the high bit set on every byte but the last
RECURSIVE encode_var_vec(_)
encode_var_vec(n) ==
    IF n < 128 THEN <<n>>
    ELSE <<(n % 128) + 128>> \o encode_var_vec(n \div 128)

\* Vec::insert(pos, byte), pos counted from 0
insert(data, pos, byte) ==
    SubSeq(data, 1, pos) \o <<byte>> \o SubSeq(data, pos + 1, Len(data))

push(s, byte) == [s EXCEPT !.data = Append(@, byte)]
extend(s, bytes) == [s EXCEPT !.data = @ \o bytes]

\* the names the producer's schema gives: field i of a record, and the variant
FieldName(i) == <<119 + i>>
VariantName == <<86>>

----------------------------------------------------------------------------
(* impl ser::Serializer for &mut Serializer: one operator per method, from *)
(* the Serializer before the call to the Serializer after it.              *)

serialize_bool(s, v) == push(s, IF v THEN TAG_TRUE ELSE TAG_FALSE)

serialize_str(s, v) ==
    extend(extend(push(s, TAG_ONE_BYTE_STRING), encode_var_vec(Len(v))), v)

serialize_none(s) == push(s, TAG_UNDEFINED)

serialize_unit(s) == serialize_none(s)

serialize_unit_struct(s) == push(push(push(s, TAG_BEGIN_OBJECT), TAG_END_OBJECT), 0)

serialize_unit_variant(s, variant) ==
    push(push(serialize_none(serialize_str(push(s, TAG_BEGIN_OBJECT), variant)),
              TAG_END_OBJECT), 1)

\* serialize_newtype_variant up to its value.serialize(..) call
serialize_newtype_variant_begin(s, variant) ==
    serialize_str(push(s, TAG_BEGIN_OBJECT), variant)

\* serialize_newtype_variant after its value.serialize(..) call
serialize_newtype_variant_finish(s) == push(push(s, TAG_END_OBJECT), 1)

serialize_seq(s, len) ==
    LET s1 == [push(s, TAG_BEGIN_ARRAY) EXCEPT !.current_len = len, !.lazy_len = 0]
    IN  IF ~is_none(len)
        THEN extend(s1, encode_var_vec(AsU32(unwrap(len))))
        ELSE [s1 EXCEPT !.start_pos = Len(s1.data)]

serialize_tuple(s, len) ==
    [extend(push(s, TAG_BEGIN_ARRAY), encode_var_vec(AsU32(len)))
        EXCEPT !.current_len = Some(len)]

serialize_tuple_struct(s, len) ==
    [extend(push(s, TAG_BEGIN_ARRAY), encode_var_vec(AsU32(len)))
        EXCEPT !.current_len = Some(len)]

serialize_tuple_variant(s, variant, len) ==
    [extend(push(serialize_str(push(s, TAG_BEGIN_OBJECT), variant), TAG_BEGIN_ARRAY),
            encode_var_vec(AsU32(len)))
        EXCEPT !.current_len = Some(len)]

serialize_map(s, len) ==
    [push(s, TAG_BEGIN_MAP) EXCEPT !.current_len = len, !.lazy_len = 0]

serialize_struct(s, len) ==
    [push(s, TAG_BEGIN_OBJECT) EXCEPT !.current_len = Some(len), !.lazy_len = 0]

serialize_struct_variant(s, variant, len) ==
    [push(serialize_str(push(s, TAG_BEGIN_OBJECT), variant), TAG_BEGIN_OBJECT)
        EXCEPT !.current_len = Some(len), !.lazy_len = 0]

----------------------------------------------------------------------------
(* The Serialize* impls: what each per-item method does before it calls    *)
(* value.serialize(..), and each end().  An end() that unwraps a None      *)
(* current_len panics, and the operator then gives the Serializer as the   *)
(* panic leaves it.                                                        *)

SerializeSeq_serialize_element(s) ==
    IF is_none(s.current_len) THEN [s EXCEPT !.lazy_len = @ + 1] ELSE s

RECURSIVE insert_all(_, _, _)
insert_all(data, pos, bytes) ==
    IF bytes = <<>> THEN data
    ELSE insert_all(insert(data, pos, Head(bytes)), pos + 1, Tail(bytes))

SerializeSeq_end(s) ==
    LET s1 == IF is_none(s.current_len)
              THEN [s EXCEPT !.data =
                        insert_all(@, s.start_pos, encode_var_vec(AsU32(s.lazy_len)))]
              ELSE s
    IN  extend(push(push(s1, TAG_END_ARRAY), 0),
               encode_var_vec(AsU32(unwrap_or(s.current_len, s.lazy_len))))

SerializeTuple_end(s) ==
    LET s1 == push(push(s, TAG_END_ARRAY), 0)
    IN  IF is_none(s.current_len) THEN s1
        ELSE extend(s1, encode_var_vec(AsU32(unwrap(s.current_len))))

SerializeTupleStruct_end(s) ==
    LET s1 == push(push(s, TAG_END_ARRAY), 0)
    IN  IF is_none(s.current_len) THEN s1
        ELSE extend(s1, encode_var_vec(AsU32(unwrap(s.current_len))))

SerializeTupleVariant_end(s) ==
    LET s1 == push(push(s, TAG_END_ARRAY), 0)
    IN  IF is_none(s.current_len) THEN s1
        ELSE push(push(extend(s1, encode_var_vec(AsU32(unwrap(s.current_len)))),
                       TAG_END_OBJECT), 1)

SerializeMap_serialize_value(s) ==
    IF is_none(s.current_len) THEN [s EXCEPT !.lazy_len = @ + 1] ELSE s

SerializeMap_end(s) ==
    extend(push(s, TAG_END_MAP),
           encode_var_vec(AsU32(unwrap_or(s.current_len, s.lazy_len) * 2)))

SerializeStruct_serialize_field(s, key) == serialize_str(s, key)

SerializeStruct_end(s) ==
    LET s1 == push(s, TAG_END_OBJECT)
    IN  IF is_none(s.current_len) THEN s1
        ELSE extend(s1, encode_var_vec(AsU32(unwrap(s.current_len))))

SerializeStructVariant_serialize_field(s, key) == serialize_str(s, key)

SerializeStructVariant_end(s) ==
    LET s1 == push(s, TAG_END_OBJECT)
    IN  IF is_none(s.current_len) THEN s1
        ELSE push(push(extend(s1, encode_var_vec(AsU32(unwrap(s.current_len)))),
                       TAG_END_OBJECT), 1)

----------------------------------------------------------------------------
(* The producer: the value handed to to_vec and the Serialize impls that   *)
(* walk it.  A value is a tree; a frame of the stack is one composite the  *)
(* producer has begun and not ended: its kind, the length it declared, the *)
(* children it has served, where its first byte sits in data (counted     *)
(* from 1), and the framing fields of the Serializer when it began.        *)

Leaf(k, v) == [k |-> k, len |-> None, items |-> <<>>, v |-> v]
Node(k, len, items) == [k |-> k, len |-> len, items |-> items, v |-> FALSE]

NothingEnded == [value |-> Leaf("nothing", FALSE), at |-> 0, bytes |-> <<>>]

Frame(kind, len, at, s0) ==
    [kind |-> kind, len |-> len, items |-> <<>>, at |-> at,
     before |-> [start_pos |-> s0.start_pos, current_len |-> s0.current_len,
                 lazy_len |-> s0.lazy_len]]

Top == stack[Len(stack)]
Pop(st) == SubSeq(st, 1, Len(st) - 1)

\* how many children a frame takes: what it declared, or as many as the
\* producer cares to reveal, a map taking a key and a value per entry
Cap(f) ==
    CASE f.kind = "newtype_variant" -> 1
      [] f.kind = "map" -> 2 * (IF is_none(f.len) THEN MaxEntries ELSE unwrap(f.len))
      [] OTHER -> IF is_none(f.len) THEN MaxLen ELSE unwrap(f.len)

\* the frame may end: every declared child is served (a map ends on a whole entry)
MayEnd(f) ==
    IF is_none(f.len)
    THEN f.kind = "map" => Len(f.items) % 2 = 0
    ELSE Len(f.items) = Cap(f)

\* a value may be serialized now: the root, or the next child of the open composite
CanServe ==
    /\ status = "running"
    /\ stack # <<>> => Len(Top.items) < Cap(Top)

CanBegin == CanServe /\ Len(stack) < MaxDepth


\* the enclosing composite's per-item method, up to its value.serialize(..) call
EnterSlot(s) ==
    IF stack = <<>> THEN s
    ELSE CASE Top.kind = "seq" -> SerializeSeq_serialize_element(s)
           [] Top.kind = "map" ->
                IF Len(Top.items) % 2 = 0 THEN s ELSE SerializeMap_serialize_value(s)
           [] Top.kind = "struct" ->
                SerializeStruct_serialize_field(s, FieldName(Len(Top.items) + 1))
           [] Top.kind = "struct_variant" ->
                SerializeStructVariant_serialize_field(s, FieldName(Len(Top.items) + 1))
           [] OTHER -> s

\* value t has been serialized: control returns to the enclosing composite, and
\* a pending serialize_newtype_variant runs to its end; with no composite open,
\* to_vec returns
RECURSIVE Completed(_, _, _)
Completed(s, st, t) ==
    IF st = <<>>
    THEN [ser |-> s, stack |-> st, status |-> "done", closed |-> <<>>]
    ELSE LET f == st[Len(st)]
         IN  IF f.kind = "newtype_variant"
             THEN LET s2 == serialize_newtype_variant_finish(s)
                      t2 == Node("newtype_variant", None, <<t>>)
                      r  == Completed(s2, Pop(st), t2)
                  IN  [r EXCEPT !.closed =
                          IF @ = <<>>
                          THEN <<[value |-> t2, at |-> f.at,
                                  bytes |-> SubSeq(s2.data, f.at, Len(s2.data))]>>
                          ELSE @]
             ELSE [ser |-> s,
                   stack |-> [st EXCEPT ![Len(st)].items = Append(@, t)],
                   status |-> "running", closed |-> <<>>]

Return(r, own) ==
    /\ serializer' = r.ser
    /\ stack' = r.stack
    /\ status' = r.status
    /\ ended' = IF r.closed # <<>> THEN r.closed[1] ELSE own

\* to_vec: the fresh Serializer
Fresh ==
    [data |-> <<VERSION_MARK, FORMAT_VERSION>>, start_pos |-> 0,
     current_len |-> None, lazy_len |-> 0]

----------------------------------------------------------------------------
(* Scalars, and the objects written by one call (a unit struct or variant   *)
(* is an object on the wire, and counts as a level of nesting).            *)

SerializeBool(v) ==
    /\ CanServe
    /\ Return(Completed(serialize_bool(EnterSlot(serializer), v), stack, Leaf("bool", v)),
              ended)
    /\ UNCHANGED deVars

SerializeNone ==
    /\ CanServe
    /\ Return(Completed(serialize_none(EnterSlot(serializer)), stack, Leaf("none", FALSE)),
              ended)
    /\ UNCHANGED deVars

SerializeUnitStruct ==
    /\ CanBegin
    /\ LET s0 == EnterSlot(serializer)
           s1 == serialize_unit_struct(s0)
           t  == Leaf("unit_struct", FALSE)
       IN  Return(Completed(s1, stack, t),
                  [value |-> t, at |-> Len(s0.data) + 1,
                   bytes |-> SubSeq(s1.data, Len(s0.data) + 1, Len(s1.data))])
    /\ UNCHANGED deVars

SerializeUnitVariant ==
    /\ CanBegin
    /\ LET s0 == EnterSlot(serializer)
           s1 == serialize_unit_variant(s0, VariantName)
           t  == Leaf("unit_variant", FALSE)
       IN  Return(Completed(s1, stack, t),
                  [value |-> t, at |-> Len(s0.data) + 1,
                   bytes |-> SubSeq(s1.data, Len(s0.data) + 1, Len(s1.data))])
    /\ UNCHANGED deVars

----------------------------------------------------------------------------
(* The composites: begin.                                                  *)

Begin(s0, s1, kind, len) ==
    /\ serializer' = s1
    /\ stack' = Append(stack, Frame(kind, len, Len(s0.data) + 1, s0))
    /\ UNCHANGED <<ended, status>>
    /\ UNCHANGED deVars

SerializeNewtypeVariant ==
    /\ CanBegin
    /\ LET s0 == EnterSlot(serializer)
       IN  Begin(s0, serialize_newtype_variant_begin(s0, VariantName),
                 "newtype_variant", None)

SerializeSeq(len) ==
    /\ CanBegin
    /\ LET s0 == EnterSlot(serializer)
       IN  Begin(s0, serialize_seq(s0, len), "seq", len)

SerializeTuple(n) ==
    /\ CanBegin
    /\ LET s0 == EnterSlot(serializer)
       IN  Begin(s0, serialize_tuple(s0, n), "tuple", Some(n))

SerializeTupleStruct(n) ==
    /\ CanBegin
    /\ LET s0 == EnterSlot(serializer)
       IN  Begin(s0, serialize_tuple_struct(s0, n), "tuple_struct", Some(n))

SerializeTupleVariant(n) ==
    /\ CanBegin
    /\ LET s0 == EnterSlot(serializer)
       IN  Begin(s0, serialize_tuple_variant(s0, VariantName, n), "tuple_variant", Some(n))

SerializeMap(len) ==
    /\ CanBegin
    /\ LET s0 == EnterSlot(serializer)
       IN  Begin(s0, serialize_map(s0, len), "map", len)

SerializeStruct(n) ==
    /\ CanBegin
    /\ LET s0 == EnterSlot(serializer)
       IN  Begin(s0, serialize_struct(s0, n), "struct", Some(n))

SerializeStructVariant(n) ==
    /\ CanBegin
    /\ LET s0 == EnterSlot(serializer)
       IN  Begin(s0, serialize_struct_variant(s0, VariantName, n), "struct_variant", Some(n))

----------------------------------------------------------------------------
(* The composites: end.                                                    *)

CanEnd(kind) ==
    /\ status = "running"
    /\ stack # <<>>
    /\ Top.kind = kind
    /\ MayEnd(Top)

\* where the byte at position at (from 1) sits once SerializeSeq::end has
\* inserted the deferred length at start_pos
Shifted(s, at) ==
    IF is_none(s.current_len) /\ at - 1 >= s.start_pos
    THEN at + Len(encode_var_vec(AsU32(s.lazy_len)))
    ELSE at

\* end() returned: the composite is complete
Ended(s1, st, at) ==
    LET t == Node(Top.kind, Top.len, Top.items)
    IN  Return(Completed(s1, st, t),
               [value |-> t, at |-> at, bytes |-> SubSeq(s1.data, at, Len(s1.data))])

\* end() panicked on current_len.unwrap(): to_vec never returns
Panicked(s1) ==
    /\ serializer' = s1
    /\ status' = "panicked"
    /\ UNCHANGED <<stack, ended>>

SeqEnd ==
    /\ CanEnd("seq")
    /\ Ended(SerializeSeq_end(serializer),
             [i \in 1..(Len(stack) - 1) |->
                 [stack[i] EXCEPT !.at = Shifted(serializer, @)]],
             Shifted(serializer, Top.at))
    /\ UNCHANGED deVars

TupleEnd ==
    /\ CanEnd("tuple")
    /\ IF is_none(serializer.current_len)
       THEN Panicked(SerializeTuple_end(serializer))
       ELSE Ended(SerializeTuple_end(serializer), Pop(stack), Top.at)
    /\ UNCHANGED deVars

TupleStructEnd ==
    /\ CanEnd("tuple_struct")
    /\ IF is_none(serializer.current_len)
       THEN Panicked(SerializeTupleStruct_end(serializer))
       ELSE Ended(SerializeTupleStruct_end(serializer), Pop(stack), Top.at)
    /\ UNCHANGED deVars

TupleVariantEnd ==
    /\ CanEnd("tuple_variant")
    /\ IF is_none(serializer.current_len)
       THEN Panicked(SerializeTupleVariant_end(serializer))
       ELSE Ended(SerializeTupleVariant_end(serializer), Pop(stack), Top.at)
    /\ UNCHANGED deVars

MapEnd ==
    /\ CanEnd("map")
    /\ Ended(SerializeMap_end(serializer), Pop(stack), Top.at)
    /\ UNCHANGED deVars

StructEnd ==
    /\ CanEnd("struct")
    /\ IF is_none(serializer.current_len)
       THEN Panicked(SerializeStruct_end(serializer))
       ELSE Ended(SerializeStruct_end(serializer), Pop(stack), Top.at)
    /\ UNCHANGED deVars

StructVariantEnd ==
    /\ CanEnd("struct_variant")
    /\ IF is_none(serializer.current_len)
       THEN Panicked(SerializeStructVariant_end(serializer))
       ELSE Ended(SerializeStructVariant_end(serializer), Pop(stack), Top.at)
    /\ UNCHANGED deVars

----------------------------------------------------------------------------
(* The adapter driven through to_vec.                                      *)

\* to_vec's Serializer, no composite open; Deserializer::new, not yet called
Init ==
    /\ serializer = Fresh
    /\ stack = <<>>
    /\ ended = NothingEnded
    /\ status = "running"
    /\ de_data = <<>>
    /\ de_offset = 0
    /\ de_result = [kind |-> "none"]
    /\ origin = [how |-> "none"]

Next ==
    \/ \E v \in BOOLEAN : SerializeBool(v)
    \/ SerializeNone
    \/ SerializeUnitStruct
    \/ SerializeUnitVariant
    \/ SerializeNewtypeVariant
    \/ \E len \in {None} \cup {Some(n) : n \in 0..MaxLen} : SerializeSeq(len)
    \/ \E n \in 0..MaxLen : SerializeTuple(n)
    \/ \E n \in 0..MaxLen : SerializeTupleStruct(n)
    \/ \E n \in 0..MaxLen : SerializeTupleVariant(n)
    \/ \E len \in {None} \cup {Some(n) : n \in 0..MaxEntries} : SerializeMap(len)
    \/ \E n \in 0..MaxLen : SerializeStruct(n)
    \/ \E n \in 0..MaxLen : SerializeStructVariant(n)
    \/ SeqEnd
    \/ TupleEnd
    \/ TupleStructEnd
    \/ TupleVariantEnd
    \/ MapEnd
    \/ StructEnd
    \/ StructVariantEnd

Spec == Init /\ [][Next]_vars

----------------------------------------------------------------------------
(* The Value model of common.rs.  A String is the sequence of its bytes, an *)
(* f64 the sequence of its eight IEEE-754 bytes, most significant first,   *)
(* and a HashMap or HashSet the sequence of its entries in the order its   *)
(* iterator yields them.                                                   *)

Undefined == [t |-> "Undefined"]
Null == [t |-> "Null"]
Boolean(b) == [t |-> "Boolean", b |-> b]
Int32(i) == [t |-> "Int32", i |-> i]
Uint32(u) == [t |-> "Uint32", u |-> u]
Double(f) == [t |-> "Double", f |-> f]
BigInt(i) == [t |-> "BigInt", i |-> i]
String(s, utf16) == [t |-> "String", s |-> s, utf16 |-> utf16]
ObjectReference(id) == [t |-> "ObjectReference", id |-> id]
Object(entries) == [t |-> "Object", entries |-> entries]
Array(items) == [t |-> "Array", items |-> items]
Date(f) == [t |-> "Date", f |-> f]
NumberObject(f) == [t |-> "NumberObject", f |-> f]
BigIntObject == [t |-> "BigIntObject"]
StringObject(s) == [t |-> "StringObject", s |-> s]
RegExp(expr, flags) == [t |-> "RegExp", expr |-> expr, flags |-> flags]
Map(entries) == [t |-> "Map", entries |-> entries]
Set(items) == [t |-> "Set", items |-> items]
ArrayBuffer(bytes) == [t |-> "ArrayBuffer", bytes |-> bytes]
ArrayBufferTransfer(id) == [t |-> "ArrayBufferTransfer", transfer_id |-> id]
ArrayBufferView(ty, off, len, buffer) ==
    [t |-> "ArrayBufferView", ty |-> ty, byte_offset |-> off, byte_length |-> len,
     buffer |-> buffer]
SharedArrayBuffer(id) == [t |-> "SharedArrayBuffer", transfer_id |-> id]
Error(ty, message, stack_text) ==
    [t |-> "Error", ty |-> ty, message |-> message, stack |-> stack_text]

----------------------------------------------------------------------------
(* The Value-tree encoder: the write_.. methods of impl Serializer, each    *)
(* from the bytes of self.data before the call to the bytes after it.      *)

encode_var_vec_signed_no_zigzag(n) == encode_var_vec(IF n >= 0 THEN 2 * n ELSE -2 * n)

\* integer_encoding's encode_var_vec on a signed integer: zig-zag, then base 128
encode_var_vec_signed(n) == encode_var_vec(IF n >= 0 THEN 2 * n ELSE -2 * n - 1)

\* the k low bytes of n >= 0, least significant first
RECURSIVE le_bytes(_, _)
le_bytes(n, k) == IF k = 0 THEN <<>> ELSE <<n % 256>> \o le_bytes(n \div 256, k - 1)

\* (value as u64).to_le_bytes() of an i64: two's complement
i64_to_le_bytes(value) ==
    IF value >= 0 THEN le_bytes(value, 8)
    ELSE [i \in 1..8 |-> 255 - le_bytes(-value - 1, 8)[i]]

\* f64::to_ne_bytes on a little- or big-endian host
to_ne_bytes(f, host) ==
    IF host = "little" THEN [i \in 1..Len(f) |-> f[Len(f) + 1 - i]] ELSE f

write_undefined(data) == Append(data, TAG_UNDEFINED)

write_null(data) == Append(data, TAG_NULL)

write_boolean(data, value) == Append(data, IF value THEN TAG_TRUE ELSE TAG_FALSE)

write_int32(data, value) == Append(data, TAG_INT32) \o encode_var_vec_signed(value)

write_uint32(data, value) == Append(data, TAG_UINT32) \o encode_var_vec(value)

write_double(data, value, host) == Append(data, TAG_DOUBLE) \o to_ne_bytes(value, host)

write_bigint(data, value) ==
    LET flags == (IF value < 0 THEN 1 ELSE 0) + 8 * 2
    IN  Append(data, TAG_BIGINT) \o encode_var_vec(flags) \o i64_to_le_bytes(value)

write_string(data, value, utf16) ==
    Append(data, IF utf16 THEN TAG_TWO_BYTE_STRING ELSE TAG_ONE_BYTE_STRING)
        \o encode_var_vec(Len(value)) \o value

write_object_reference(data, id) == Append(data, TAG_OBJECT_REFERENCE) \o encode_var_vec(id)

write_date(data, value, host) == Append(data, TAG_DATE) \o to_ne_bytes(value, host)

write_number_object(data, value, host) ==
    Append(data, TAG_NUMBER_OBJECT) \o to_ne_bytes(value, host)

write_bigint_object(data) == Append(data, TAG_BIGINT_OBJECT)

write_string_object(data, value) ==
    Append(data, TAG_STRING_OBJECT) \o encode_var_vec(AsU32(Len(value))) \o value

write_regexp(data, expr, flags) ==
    Append(data, TAG_REGEXP) \o encode_var_vec(AsU32(Len(expr))) \o expr
        \o encode_var_vec(flags)

write_array_buffer(data, value) ==
    Append(data, TAG_ARRAY_BUFFER) \o encode_var_vec(AsU32(Len(value))) \o value

write_array_buffer_transfer(data, transfer_id) ==
    Append(data, TAG_ARRAY_BUFFER_TRANSFER) \o encode_var_vec(transfer_id)

ViewTypeChar(ty) ==
    CASE ty = "Int8Array" -> 98
      [] ty = "Uint8Array" -> 66
      [] ty = "Uint8ClampedArray" -> 67
      [] ty = "Int16Array" -> 119
      [] ty = "Uint16Array" -> 87
      [] ty = "Int32Array" -> 100
      [] ty = "Uint32Array" -> 68
      [] ty = "Float32Array" -> 102
      [] ty = "Float64Array" -> 70
      [] ty = "BigInt64Array" -> 113
      [] ty = "BigUint64Array" -> 81
      [] ty = "DataView" -> 63

write_array_buffer_view(data, ty, byte_offset, byte_length, buffer) ==
    Append(Append(write_array_buffer(data, buffer), TAG_ARRAY_BUFFER_VIEW), ViewTypeChar(ty))
        \o encode_var_vec(byte_offset) \o encode_var_vec(byte_length)

write_shared_array_buffer(data, transfer_id) ==
    Append(data, TAG_SHARED_ARRAY_BUFFER) \o encode_var_vec(transfer_id)

ErrorTypeChar(ty) ==
    CASE ty = "EvalError" -> Some(69)
      [] ty = "RangeError" -> Some(82)
      [] ty = "ReferenceError" -> Some(70)
      [] ty = "SyntaxError" -> Some(67)
      [] ty = "TypeError" -> Some(84)
      [] ty = "UriError" -> Some(85)
      [] ty = "Unknown" -> None

write_error(data, ty, message, stack_text) ==
    LET d1 == Append(data, TAG_ERROR) \o ErrorTypeChar(ty)
        d2 == IF is_none(message) THEN d1
              ELSE write_string(Append(d1, TAG_ERROR_MESSAGE), unwrap(message), FALSE)
        d3 == IF is_none(stack_text) THEN d2
              ELSE write_string(Append(d2, TAG_ERROR_STACK), unwrap(stack_text), FALSE)
    IN  Append(d3, TAG_ERROR_END)

RECURSIVE write_value(_, _, _), write_values(_, _, _), write_entries(_, _, _)

write_object(data, value, host) ==
    Append(write_entries(Append(data, TAG_BEGIN_OBJECT),
                         [i \in 1..Len(value) |-> <<String(value[i][1], FALSE), value[i][2]>>],
                         host),
           TAG_END_OBJECT) \o encode_var_vec(AsU32(Len(value)))

write_array(data, value, host) ==
    LET enc == encode_var_vec(Len(value))
    IN  write_values(Append(data, TAG_BEGIN_ARRAY) \o enc, value, host)
            \o <<36, 0>> \o enc

write_map(data, value, host) ==
    Append(write_entries(Append(data, TAG_BEGIN_MAP), value, host), TAG_END_MAP)
        \o encode_var_vec(AsU32(Len(value)))

write_set(data, value, host) ==
    Append(write_values(Append(data, TAG_BEGIN_SET), value, host), TAG_END_SET)
        \o encode_var_vec(AsU32(Len(value)))

write_value(data, value, host) ==
    CASE value.t = "Undefined" -> write_undefined(data)
      [] value.t = "Null" -> write_null(data)
      [] value.t = "Boolean" -> write_boolean(data, value.b)
      [] value.t = "Int32" -> write_int32(data, value.i)
      [] value.t = "Uint32" -> write_uint32(data, value.u)
      [] value.t = "Double" -> write_double(data, value.f, host)
      [] value.t = "BigInt" -> write_bigint(data, value.i)
      [] value.t = "String" -> write_string(data, value.s, value.utf16)
      [] value.t = "ObjectReference" -> write_object_reference(data, value.id)
      [] value.t = "Object" -> write_object(data, value.entries, host)
      [] value.t = "Array" -> write_array(data, value.items, host)
      [] value.t = "Date" -> write_date(data, value.f, host)
      [] value.t = "NumberObject" -> write_number_object(data, value.f, host)
      [] value.t = "BigIntObject" -> write_bigint_object(data)
      [] value.t = "StringObject" -> write_string_object(data, value.s)
      [] value.t = "RegExp" -> write_regexp(data, value.expr, value.flags)
      [] value.t = "Map" -> write_map(data, value.entries, host)
      [] value.t = "Set" -> write_set(data, value.items, host)
      [] value.t = "ArrayBuffer" -> write_array_buffer(data, value.bytes)
      [] value.t = "ArrayBufferTransfer" ->
            write_array_buffer_transfer(data, value.transfer_id)
      [] value.t = "ArrayBufferView" ->
            write_array_buffer_view(data, value.ty, value.byte_offset, value.byte_length,
                                    value.buffer)
      [] value.t = "SharedArrayBuffer" -> write_shared_array_buffer(data, value.transfer_id)
      [] value.t = "Error" -> write_error(data, value.ty, value.message, value.stack)

\* the loop of write_array and write_set: each value in turn
write_values(data, values, host) ==
    IF values = <<>> THEN data
    ELSE write_values(write_value(data, Head(values), host), Tail(values), host)

\* the loop of write_object and write_map: each key, then its value
write_entries(data, entries, host) ==
    IF entries = <<>> THEN data
    ELSE write_entries(
            write_value(write_value(data, Head(entries)[1], host), Head(entries)[2], host),
            Tail(entries), host)

\* Serializer::serialize: self.write_value(value); self.data
serialize(s, value, host) == write_value(s.data, value, host)

\* the Serializer handed to serialize: built as to_vec builds it (the stream
\* header already in data), or with an empty data
encode(value, host, framed) == serialize(IF framed THEN Fresh ELSE [Fresh EXCEPT !.data = <<>>], value, host)

----------------------------------------------------------------------------
(* The decoder of de.rs.  d is the Deserializer (data, offset); a result   *)
(* is Ok with the Value, Err with the Error, or the panic of an index past *)
(* the end of data, each with the offset the call left.                    *)

Ok(v, d) == [kind |-> "Ok", value |-> v, offset |-> d.offset]
Err(e, d) == [kind |-> "Err", error |-> e, offset |-> d.offset]
Panic(d) == [kind |-> "Panic", index |-> d.offset, len |-> Len(d.data), offset |-> d.offset]

\* self.data[self.offset] does not panic
InBounds(d) == d.offset < Len(d.data)

byte(d) == d.data[d.offset + 1]

next(d) == [d EXCEPT !.offset = @ + 1]

expect_next(d, to_be) ==
    IF byte(d) = to_be
    THEN [ok |-> TRUE, d |-> next(d)]
    ELSE [ok |-> FALSE, d |-> d,
          error |-> [kind |-> "Expected", to_be |-> to_be, but_got |-> byte(d)]]

is_version(d) == byte(d) = VERSION_MARK

is_undefined(d) == byte(d) = TAG_UNDEFINED

parse_undefined(d) ==
    LET r == expect_next(d, TAG_UNDEFINED)
    IN  IF r.ok THEN Ok(Undefined, r.d) ELSE Err(r.error, r.d)

is_null(d) == byte(d) = TAG_NULL

parse_null(d) ==
    LET r == expect_next(d, TAG_NULL)
    IN  IF r.ok THEN Ok(Undefined, r.d) ELSE Err(r.error, r.d)

is_bool(d) == byte(d) = TAG_TRUE \/ byte(d) = TAG_FALSE

parse_bool(d) ==
    CASE byte(d) = TAG_TRUE -> Ok(Boolean(TRUE), next(d))
      [] byte(d) = TAG_FALSE -> Ok(Boolean(FALSE), next(d))
      [] OTHER -> Err([kind |-> "Unexpected", byte |-> byte(d), at |-> d.offset], d)

parse(d) ==
    IF ~InBounds(d) THEN Panic(d)
    ELSE IF is_undefined(d) THEN parse_undefined(d)
    ELSE IF is_null(d) THEN parse_null(d)
    ELSE IF is_bool(d) THEN parse_bool(d)
    ELSE Err([kind |-> "Unexpected", byte |-> byte(d), at |-> d.offset], d)

\* deserialize with the header taken for one byte, not two
deserialize_skips_one(data) ==
    LET d0 == [data |-> data, offset |-> 0]
    IN  IF ~InBounds(d0) THEN Panic(d0)
        ELSE parse(IF is_version(d0) THEN [d0 EXCEPT !.offset = @ + 1] ELSE d0)

deserialize(data) ==
    LET d0 == [data |-> data, offset |-> 0]
    IN  IF ~InBounds(d0) THEN Panic(d0)
        ELSE parse(IF is_version(d0) THEN [d0 EXCEPT !.offset = @ + 2] ELSE d0)

----------------------------------------------------------------------------
(* The wire layout of a value, as the tests of ser.rs pin it down (test_seq,*)
(* test_tuple, test_map, test_struct, test_*_variant, test_unit_struct):   *)
(* what the adapter is to write for a value and its children.              *)

WireStr(v) == <<TAG_ONE_BYTE_STRING>> \o encode_var_vec(Len(v)) \o v

WireArray(n, body) ==
    <<TAG_BEGIN_ARRAY>> \o encode_var_vec(n) \o body
        \o <<TAG_END_ARRAY, 0>> \o encode_var_vec(n)

WireObject(n, body) ==
    <<TAG_BEGIN_OBJECT>> \o body \o <<TAG_END_OBJECT>> \o encode_var_vec(n)

WireMap(k, body) ==
    <<TAG_BEGIN_MAP>> \o body \o <<TAG_END_MAP>> \o encode_var_vec(2 * k)

WireVariant(variant, payload) == WireObject(1, WireStr(variant) \o payload)

RECURSIVE Wire(_), WireAll(_), WireFields(_, _)
Wire(t) ==
    CASE t.k = "bool" -> <<IF t.v THEN TAG_TRUE ELSE TAG_FALSE>>
      [] t.k = "none" -> <<TAG_UNDEFINED>>
      [] t.k = "unit_struct" -> WireObject(0, <<>>)
      [] t.k = "unit_variant" -> WireVariant(VariantName, <<TAG_UNDEFINED>>)
      [] t.k = "newtype_variant" -> WireVariant(VariantName, Wire(t.items[1]))
      [] t.k \in {"seq", "tuple", "tuple_struct"} ->
            WireArray(Len(t.items), WireAll(t.items))
      [] t.k = "tuple_variant" ->
            WireVariant(VariantName, WireArray(Len(t.items), WireAll(t.items)))
      [] t.k = "map" -> WireMap(Len(t.items) \div 2, WireAll(t.items))
      [] t.k = "struct" -> WireObject(Len(t.items), WireFields(t.items, 1))
      [] t.k = "struct_variant" ->
            WireVariant(VariantName, WireObject(Len(t.items), WireFields(t.items, 1)))

WireAll(ts) == IF ts = <<>> THEN <<>> ELSE Wire(Head(ts)) \o WireAll(Tail(ts))

WireFields(ts, i) ==
    IF ts = <<>> THEN <<>>
    ELSE WireStr(FieldName(i)) \o Wire(Head(ts)) \o WireFields(Tail(ts), i + 1)

\* end() of a composite of one of these kinds panicked
EndPanicked(kinds) == status = "panicked" /\ Top.kind \in kinds

\* the composite that ended last is of one of these kinds
JustEnded(kinds) == ended.value.k \in kinds

----------------------------------------------------------------------------
(* Claims about the adapter.                                               *)

\* C1: whatever the producer has driven through the adapter, the buffer
\* starts with 0xFF and FORMAT_VERSION: no operation inserts, removes or
\* overwrites a byte at position 0 or 1.
C1_HeaderKept ==
    /\ Len(serializer.data) >= 2
    /\ serializer.data[1] = VERSION_MARK
    /\ serializer.data[2] = FORMAT_VERSION

\* C6: a keyed record of N fields is written as 'o', its N (key, value)
\* pairs in field order, '{' and varint N, whatever its fields' values are;
\* its end() writes that count and does not fail.
C6_RecordFraming ==
    /\ JustEnded({"struct"}) => ended.bytes = Wire(ended.value)
    /\ ~EndPanicked({"struct"})

\* C7: a sequence, tuple or tuple struct of known length n is written as
\* 'A', varint n, its n elements, '$', 0x00, varint n, whatever its elements
\* are; its end() writes that count and does not fail.
C7_KnownLengthArray ==
    /\ JustEnded({"seq", "tuple", "tuple_struct"}) /\ ~is_none(ended.value.len)
          => ended.bytes = Wire(ended.value)
    /\ ~EndPanicked({"tuple", "tuple_struct"})

\* C8: a sequence begun with unknown length ends with the bytes of the same
\* elements written with the length known upfront: the count of the elements
\* streamed sits right after the sequence's own 'A' and again after '$' 0x00,
\* also when such sequences are nested.
C8_DeferredLength ==
    JustEnded({"seq"}) /\ is_none(ended.value.len)
        => ended.bytes = Wire(ended.value)

\* C9: a map of k entries, its length known upfront or not, is written as
\* ';', its k keys and values interleaved, ':' and varint 2k, whatever its
\* keys and values are.
C9_MapFraming ==
    JustEnded({"map"}) => ended.bytes = Wire(ended.value)

\* C10: a unit, newtype, tuple or struct variant is written as an object of
\* exactly one field: 'o', the variant's name, the payload ('_' when there
\* is none, a well-framed array or object for a tuple or struct variant),
\* '{' and 1; its end() does not fail.
C10_VariantFraming ==
    /\ JustEnded({"unit_variant", "newtype_variant", "tuple_variant", "struct_variant"})
          => ended.bytes = Wire(ended.value)
    /\ ~EndPanicked({"tuple_variant", "struct_variant"})

----------------------------------------------------------------------------
(* The decoder called on encoded Values: whole, cut short, and with the    *)
(* trailing count of a composite replaced.                                 *)

\* 3.14, the f64 of test_numbers
F64_PI == <<64, 9, 30, 184, 81, 235, 133, 31>>

Hosts == {"little", "big"}

Scalars ==
    {Undefined, Null, Boolean(TRUE), Boolean(FALSE), Int32(1), Int32(-1234),
     Uint32(1), Uint32(300), Double(F64_PI), BigInt(1), BigInt(-1),
     String(<<120>>, FALSE), String(<<120, 0>>, TRUE), ObjectReference(0),
     Date(F64_PI), NumberObject(F64_PI), BigIntObject, StringObject(<<120>>),
     RegExp(<<120>>, 1), ArrayBuffer(<<1, 2, 3>>), ArrayBufferTransfer(1),
     ArrayBufferView("Uint8Array", 0, 1, <<7>>), SharedArrayBuffer(1),
     Error("TypeError", Some(<<120>>), None), Error("Unknown", None, Some(<<120>>))}

Kids == {Null, Boolean(TRUE), Uint32(1)}
SeqsUpTo(S, n) == UNION {[1..k -> S] : k \in 0..n}

DistinctItems(s) == \A i, j \in 1..Len(s) : i # j => s[i] # s[j]
DistinctKeys(s) == \A i, j \in 1..Len(s) : i # j => s[i][1] # s[j][1]

\* the composites of at most n children taken from S
Composites(S, n) ==
    {Array(s) : s \in SeqsUpTo(S, n)}
    \cup {Set(s) : s \in {q \in SeqsUpTo(S, n) : DistinctItems(q)}}
    \cup {Object(s) : s \in {q \in SeqsUpTo({<<120>>, <<121>>} \X S, n) : DistinctKeys(q)}}
    \cup {Map(s) : s \in {q \in SeqsUpTo(Kids \X S, n) : DistinctKeys(q)}}

Flat == Composites(Kids, MaxKids)
Nested == Composites(Kids \cup Flat, NestedKids)
Values == Scalars \cup Flat \cup Nested

\* the count write_object, write_array, write_map and write_set put last
TrailingCount(v) == IF v.t \in {"Object", "Map"} THEN Len(v.entries) ELSE Len(v.items)

\* the encoded composite with its trailing count replaced by c
Corrupt(bytes, v, c) ==
    SubSeq(bytes, 1, Len(bytes) - Len(encode_var_vec(TrailingCount(v)))) \o encode_var_vec(c)

\* deserialize takes the Deserializer by value: one made by new() decodes once
NotCalled == de_result.kind = "none"

\* Deserializer::new().deserialize(data)
Deserialize(data, how) ==
    LET r == deserialize(data)
    IN  /\ de_data' = data
        /\ de_offset' = r.offset
        /\ de_result' = r
        /\ origin' = how
        /\ UNCHANGED <<serializer, stack, ended, status>>

DeserializeEncoded ==
    /\ NotCalled
    /\ \E v \in Values, host \in Hosts, framed \in BOOLEAN :
          Deserialize(encode(v, host, framed),
                      [how |-> "encoded", value |-> v, host |-> host, framed |-> framed])

DeserializeTruncated ==
    /\ NotCalled
    /\ \E v \in Values, host \in Hosts, framed \in BOOLEAN :
          LET bytes == encode(v, host, framed)
          IN  \E cut \in 0..(Len(bytes) - 1) :
                  Deserialize(SubSeq(bytes, 1, cut),
                              [how |-> "truncated", value |-> v, host |-> host,
                               framed |-> framed, cut |-> cut])

DeserializeCorrupted ==
    /\ NotCalled
    /\ \E v \in Flat \cup Nested, framed \in BOOLEAN, c \in 0..(MaxKids + 1) :
          /\ c # TrailingCount(v)
          /\ Deserialize(Corrupt(encode(v, "little", framed), v, c),
                         [how |-> "corrupted", value |-> v, host |-> "little",
                          framed |-> framed, count |-> c])

CodecNext ==
    \/ DeserializeEncoded
    \/ DeserializeTruncated
    \/ DeserializeCorrupted

CodecSpec == Init /\ [][CodecNext]_vars

----------------------------------------------------------------------------
(* The decoder called on a payload with and without the stream header.     *)

VersionBytes == {FORMAT_VERSION, 0, VERSION_MARK}

Payloads ==
    SeqsUpTo({VERSION_MARK, FORMAT_VERSION, TAG_UNDEFINED, TAG_NULL, TAG_TRUE,
              TAG_FALSE, TAG_BEGIN_ARRAY}, MaxRaw)

Header(version) == <<VERSION_MARK, version>>

DeserializeRaw ==
    /\ NotCalled
    /\ \E p \in Payloads :
          Deserialize(p, [how |-> "raw", payload |-> p])

DeserializeFramed ==
    /\ NotCalled
    /\ \E p \in Payloads, version \in VersionBytes :
          Deserialize(Header(version) \o p,
                      [how |-> "framed", payload |-> p, version |-> version])

HeaderNext ==
    \/ DeserializeRaw
    \/ DeserializeFramed

HeaderSpec == Init /\ [][HeaderNext]_vars

----------------------------------------------------------------------------
(* Claims about the decoder.                                               *)

\* C2: decoding the bytes that encode a Value succeeds and yields that
\* Value: the same variant, structure and scalar contents.
C2_RoundTrip ==
    origin.how = "encoded"
        => de_result.kind = "Ok" /\ de_result.value = origin.value

\* C3: decoding a valid stream cut anywhere before its end (the empty
\* stream, 0xFF alone and the bare header included) fails with a
\* TruncatedInput error, and the decoder never reads a byte at an offset
\* that is not below the buffer length.
C3_TruncationSafe ==
    /\ origin.how = "truncated"
          => de_result.kind = "Err" /\ de_result.error.kind = "TruncatedInput"
    /\ de_result.kind # "Panic"

\* C4: decoding an encoded object, array, map or set whose trailing count
\* was replaced by another value fails with a CountMismatch error, and
\* never yields a Value.
C4_CountChecked ==
    origin.how = "corrupted"
        => /\ de_result.kind # "Ok"
           /\ de_result.kind = "Err" /\ de_result.error.kind = "CountMismatch"

\* what a call gave, its offsets left out: the Value, the variant of the
\* Error, or the panic
Outcome(r) ==
    CASE r.kind = "Ok" -> [kind |-> "Ok", value |-> r.value]
      [] r.kind = "Err" -> [kind |-> "Err", error |-> r.error.kind]
      [] OTHER -> [kind |-> r.kind]

FramedLikeRaw ==
    \A version \in VersionBytes :
        Outcome(deserialize(Header(version) \o origin.payload)) = Outcome(de_result)

\* C5 as stated: for every payload p and every version byte v, decode(p)
\* and decode([0xFF, v] ++ p) give the same Value or fail the same way.
C5_HeaderOptional_AnyPayload ==
    origin.how = "raw" => FramedLikeRaw

\* C5 as amended: for every payload p that does not begin with 0xFF and
\* every version byte v, decode(p) and decode([0xFF, v] ++ p) give the same
\* Value or fail the same way (the same Error variant, or the same
\* out-of-bounds panic).
C5_HeaderOptional ==
    (/\ origin.how = "raw"
     /\ origin.payload = <<>> \/ origin.payload[1] # VERSION_MARK)
        => FramedLikeRaw

\* C5's case: a payload that begins with a tag was decoded without a header
C5_Witness ==
    /\ origin.how = "raw"
    /\ origin.payload # <<>>
    /\ origin.payload[1] = TAG_TRUE
    /\ de_result.kind = "Ok"

----------------------------------------------------------------------------
(* Numbers and byte buffers: to_vec on one scalar, and serialize on one    *)
(* scalar Value.  A usize is the pair (hi, lo) of hi * 2^32 + lo, so that  *)
(* `as u32` keeps lo and a length above u32::MAX has hi > 0; the bytes of  *)
(* a buffer are not materialised, extend() appends all of them unchanged.  *)

\* serialize_i8, serialize_i16 and serialize_i32: the same body
serialize_i32(s, v) == extend(push(s, TAG_INT32), encode_var_vec_signed(v))

\* serialize_u8, serialize_u16 and serialize_u32: the same body
serialize_u32(s, v) == extend(push(s, TAG_UINT32), encode_var_vec(v))

serialize_i64_sign_of_value(s, v) ==
    LET flags == (IF v < 0 THEN 1 ELSE 0) + 8 * 2
    IN  extend(extend(push(s, TAG_BIGINT), encode_var_vec(flags)), i64_to_le_bytes(v))

serialize_i64(s, v) ==
    LET flags == 1 + 8 * 2
    IN  extend(extend(push(s, TAG_BIGINT), encode_var_vec(flags)), i64_to_le_bytes(v))

serialize_u64(s, v) ==
    LET flags == 8 * 2
    IN  extend(extend(push(s, TAG_BIGINT), encode_var_vec(flags)), le_bytes(v, 8))

\* serialize_bytes on a buffer of v.hi * 2^32 + v.lo bytes, up to the length field
serialize_bytes(s, v) ==
    LET s1 == push(s, TAG_ARRAY_BUFFER)
    IN  IF v.hi > 0
        THEN [ok |-> FALSE, ser |-> s1]
        ELSE [ok |-> TRUE, ser |-> extend(s1, encode_var_vec(v.lo))]

\* write_array_buffer on a buffer of v.hi * 2^32 + v.lo bytes, up to the length field
write_array_buffer_wide(data, v) == Append(data, TAG_ARRAY_BUFFER) \o encode_var_vec(v.lo)

\* to_vec(v) returned, or serialize(Value) did: what was written after the header
Wrote(k, v, s1, st) ==
    /\ status = "running" /\ stack = <<>> /\ ended = NothingEnded
    /\ serializer' = s1
    /\ status' = st
    /\ ended' = [value |-> Leaf(k, v), at |-> 3, bytes |-> SubSeq(s1.data, 3, Len(s1.data))]
    /\ UNCHANGED stack
    /\ UNCHANGED deVars

SerializeI32(v) == Wrote("i32", v, serialize_i32(serializer, v), "done")

SerializeU32(v) == Wrote("u32", v, serialize_u32(serializer, v), "done")

SerializeI64(v) == Wrote("i64", v, serialize_i64(serializer, v), "done")

SerializeU64(v) == Wrote("u64", v, serialize_u64(serializer, v), "done")

\* to_vec returns the Err of serialize_bytes, and data is dropped
SerializeBytes(v) ==
    LET r == serialize_bytes(serializer, v)
    IN  Wrote("bytes", v, r.ser, IF r.ok THEN "done" ELSE "failed")

WriteBigint(v) ==
    Wrote("BigInt", v, [serializer EXCEPT !.data = serialize(serializer, BigInt(v), "little")],
          "done")

WriteArrayBuffer(v) ==
    Wrote("ArrayBuffer", v,
          [serializer EXCEPT !.data = write_array_buffer_wide(serializer.data, v)], "done")

\* the integers handed in: the small ones, and those around the widths of
\* the varint bytes and of the integer types (below 2^30 where zig-zag doubles)
Signed ==
    (-MaxNum..MaxNum)
        \cup {-64, 63, -65, 64, -128, 127, -129, 128, -8192, 8191, -8193, 8192,
              -32768, 32767, -65536, 65535, -1073741823, 1073741823}

Unsigned ==
    (0..MaxNum)
        \cup {127, 128, 255, 256, 16383, 16384, 65535, 65536, 2097151, 2097152,
              268435455, 268435456, 2147483647}

ScalarNext ==
    \/ \E v \in Signed : SerializeI32(v)
    \/ \E v \in Unsigned : SerializeU32(v)
    \/ \E v \in Signed \cup {-2147483647, 2147483647} : SerializeI64(v)
    \/ \E v \in Unsigned : SerializeU64(v)
    \/ \E v \in Signed \cup {-2147483647, 2147483647} : WriteBigint(v)
    \/ \E hi \in 0..1, lo \in 0..MaxNum : SerializeBytes([hi |-> hi, lo |-> lo])
    \/ \E hi \in 0..1, lo \in 0..MaxNum : WriteArrayBuffer([hi |-> hi, lo |-> lo])

ScalarSpec == Init /\ [][ScalarNext]_vars

----------------------------------------------------------------------------
(* Claims about numbers and byte buffers.                                  *)

\* byte i (from 0) of the 64-bit two's complement pattern of n: n shifted
\* right by 8 * i bits, arithmetically, and its low 8 bits
RECURSIVE PatternByte(_, _)
PatternByte(n, i) == IF i = 0 THEN n % 256 ELSE PatternByte(n \div 256, i - 1)

Pattern(n) == [i \in 1..8 |-> PatternByte(n, i - 1)]

Abs(n) == IF n < 0 THEN -n ELSE n

\* the number a base-128 varint holds, halved (its lowest bit left out),
\* and that bit
RECURSIVE VarValue(_)
VarValue(b) == IF b = <<>> THEN 0 ELSE (b[1] % 128) + 128 * VarValue(Tail(b))

VarHalf(b) == (b[1] % 128) \div 2 + 64 * VarValue(Tail(b))

WellFormedVarint(b) ==
    /\ b # <<>>
    /\ \A i \in 1..Len(b) : (b[i] >= 128) <=> (i < Len(b))
    /\ Len(b) > 1 => b[Len(b)] # 0

\* C11: a BigInt or 64-bit integer is written in sign-magnitude form: bit 0
\* of the varint header after 'Z' is set exactly when the value is negative,
\* and the 8 little-endian payload bytes hold the absolute value.
C11_SignMagnitude ==
    ended.value.k \in {"i64", "u64", "BigInt"}
        => /\ Len(ended.bytes) = 10
           /\ ended.bytes[1] = TAG_BIGINT
           /\ (ended.bytes[2] % 2 = 1) <=> (ended.value.v < 0)
           /\ SubSeq(ended.bytes, 3, 10) = Pattern(Abs(ended.value.v))

\* C12: through the adapter a u64 is written as 'Z', 16 and the 8
\* little-endian bytes of the value, an i64 as 'Z', 17 and the 8
\* little-endian bytes of its 64-bit pattern: 10 bytes after the 2-byte
\* stream header.
C12_Adapter64 ==
    /\ ended.value.k = "u64"
          => /\ serializer.data
                   = <<VERSION_MARK, FORMAT_VERSION, TAG_BIGINT, 16>> \o Pattern(ended.value.v)
             /\ Len(serializer.data) = 12
    /\ ended.value.k = "i64"
          => /\ serializer.data
                   = <<VERSION_MARK, FORMAT_VERSION, TAG_BIGINT, 17>> \o Pattern(ended.value.v)
             /\ Len(serializer.data) = 12

\* C12's case: to_vec returned for a negative i64
C12_Witness ==
    /\ status = "done"
    /\ ended.value = Leaf("i64", -129)
    /\ Len(serializer.data) = 12

\* C13: an unsigned integer of up to 32 bits is written as 'U' and its
\* little-endian base-128 varint (7 payload bits a byte, the high bit set on
\* every byte but the last), a signed one as 'I' and the varint of its
\* zig-zag mapping (n >= 0 to 2n, n < 0 to -2n-1); uint32 1 gives
\* [0x55, 0x01] and int32 1 gives [0x49, 0x02].
C13_Varint32 ==
    /\ ended.value.k = "u32"
          => /\ ended.bytes[1] = TAG_UINT32
             /\ WellFormedVarint(Tail(ended.bytes))
             /\ VarValue(Tail(ended.bytes)) = ended.value.v
             /\ ended.value.v = 1 => ended.bytes = <<85, 1>>
    /\ ended.value.k = "i32"
          => /\ ended.bytes[1] = TAG_INT32
             /\ WellFormedVarint(Tail(ended.bytes))
             /\ (ended.bytes[2] % 2 = 1) <=> (ended.value.v < 0)
             /\ VarHalf(Tail(ended.bytes))
                   = (IF ended.value.v >= 0 THEN ended.value.v ELSE -ended.value.v - 1)
             /\ ended.value.v = 1 => ended.bytes = <<73, 2>>

\* C13's case: to_vec returned for a negative integer whose varint takes
\* more than one byte
C13_Witness ==
    /\ status = "done"
    /\ ended.value = Leaf("i32", -65)
    /\ Len(ended.bytes) = 3

\* C14: a byte buffer longer than the largest 32-bit length fails to encode
\* with a size-limit error and gives no output, through the adapter and
\* through the Value-tree encoder; a buffer is never written with a length
\* field smaller than its real length.
C14_SizeLimit ==
    ended.value.k \in {"bytes", "ArrayBuffer"}
        => /\ ended.value.v.hi > 0 => status = "failed"
           /\ status = "done"
                 => /\ ended.value.v.hi = 0
                    /\ VarValue(Tail(ended.bytes)) = ended.value.v.lo

----------------------------------------------------------------------------
(* Claims about the decoder's dispatch on one tag.                         *)

\* where the cursor stands when parse is entered, and the byte there
Cursor == IF de_data # <<>> /\ de_data[1] = VERSION_MARK THEN 2 ELSE 0

\* the bytes that begin a Value in the tag table of the format
TagTable ==
    {TAG_UNDEFINED, TAG_NULL, TAG_TRUE, TAG_FALSE, TAG_INT32, TAG_UINT32, TAG_DOUBLE,
     TAG_BIGINT, TAG_ONE_BYTE_STRING, TAG_TWO_BYTE_STRING, TAG_OBJECT_REFERENCE,
     TAG_BEGIN_OBJECT, TAG_BEGIN_ARRAY, TAG_DATE, TAG_NUMBER_OBJECT, TAG_BIGINT_OBJECT,
     TAG_STRING_OBJECT, TAG_REGEXP, TAG_BEGIN_MAP, TAG_BEGIN_SET, TAG_ARRAY_BUFFER,
     TAG_ARRAY_BUFFER_TRANSFER, TAG_SHARED_ARRAY_BUFFER, TAG_ERROR}

\* C15: a stream whose value is the single tag byte '_' decodes to
\* Undefined, '0' to Null, 'T' to Boolean(true) and 'F' to Boolean(false),
\* four distinct Values, and the cursor ends one byte past the tag.
C15_SingleTags ==
    (/\ origin.how \in {"raw", "framed"}
     /\ Len(origin.payload) = 1
     /\ origin.payload[1] \in {TAG_UNDEFINED, TAG_NULL, TAG_TRUE, TAG_FALSE})
        => /\ de_result.kind = "Ok"
           /\ de_result.value =
                 (CASE origin.payload[1] = TAG_UNDEFINED -> Undefined
                    [] origin.payload[1] = TAG_NULL -> Null
                    [] origin.payload[1] = TAG_TRUE -> Boolean(TRUE)
                    [] OTHER -> Boolean(FALSE))
           /\ de_offset = Cursor + 1
           /\ Cardinality({Undefined, Null, Boolean(TRUE), Boolean(FALSE)}) = 4

\* C16: when the byte at the cursor (offset 0 without a header, 2 after one)
\* is no tag of the tag table, decoding fails with an UnexpectedTag error
\* that carries that byte and that offset, and no Value is returned; a byte
\* that is a tag of the table never gives this error.
C16_UnexpectedTag ==
    (de_result.kind # "none" /\ Cursor < Len(de_data))
        => LET b == de_data[Cursor + 1]
               unexpected == de_result.kind = "Err" /\ de_result.error.kind = "Unexpected"
           IN  /\ b \notin TagTable
                     => /\ unexpected
                        /\ de_result.error.byte = b
                        /\ de_result.error.at = Cursor
               /\ b \in TagTable => ~unexpected

----------------------------------------------------------------------------
(* Claims about the adapter's buffer and framing state.                    *)

IsPrefix(a, b) == Len(a) <= Len(b) /\ SubSeq(b, 1, Len(a)) = a

\* the step that ends a sequence begun with unknown length
LazySeqEnds ==
    /\ stack # <<>>
    /\ Top.kind = "seq"
    /\ is_none(Top.len)
    /\ Len(stack') < Len(stack)

\* C17: every encoder operation other than the end of a sequence begun with
\* unknown length only appends: the buffer before the operation is a prefix
\* of the buffer after it.
C17_AppendOnly ==
    [][LazySeqEnds \/ IsPrefix(serializer.data, serializer'.data)]_vars

\* an array of booleans and nested arrays, every length given upfront, and
\* the Value it stands for
RECURSIVE IsKnownArray(_), ToValue(_)
IsKnownArray(t) ==
    /\ t.k = "seq"
    /\ ~is_none(t.len)
    /\ \A i \in 1..Len(t.items) : t.items[i].k = "bool" \/ IsKnownArray(t.items[i])

ToValue(t) ==
    IF t.k = "bool" THEN Boolean(t.v)
    ELSE Array([i \in 1..Len(t.items) |-> ToValue(t.items[i])])

\* C18: for every array of booleans and nested arrays, the adapter with the
\* lengths known upfront (serialize_seq, serialize_element, end) writes,
\* after the 2-byte header, exactly the bytes write_array writes for it.
C18_AdapterIsWriteArray ==
    (status = "done" /\ ended.at = 3 /\ IsKnownArray(ended.value))
        => serializer.data = serialize(Fresh, ToValue(ended.value), "little")

\* C19: when a nested composite finishes, the framing state (current_len,
\* lazy_len, start_pos) has the values it had just before the nested
\* composite began.
C19_FramingRestored ==
    [][(Len(stack) >= 2 /\ Len(stack') < Len(stack))
          => /\ serializer'.current_len = Top.before.current_len
             /\ serializer'.lazy_len = Top.before.lazy_len
             /\ serializer'.start_pos = Top.before.start_pos]_vars

====
